---------------------------- MODULE Spec2Model ----------------------------
(***************************************************************************)
(* Model of src/hardware/usart.c: the interrupt-driven USART1 driver of    *)
(* the debugWIRE programmer (AVR).                                         *)
(*                                                                         *)
(* The driver is usart_init (baud-rate prescaler selection and register    *)
(* programming), the transmit-queue event hook usart_txfifo_evth, the pump *)
(* usart_send_next and the three interrupt service routines.               *)
(*                                                                         *)
(* C arithmetic in usart_init is unsigned 32-bit.  TLC's integers are      *)
(* 32-bit signed, so a uint32_t is kept as a pair <<hi, lo>> of 16-bit     *)
(* halves and every operation is computed on the halves, modulo 2^32.      *)
(***************************************************************************)
EXTENDS Integers, Sequences, FiniteSets, TLC

(***************************************************************************)
(* uint32_t / int32_t arithmetic on <<hi, lo>> pairs.                      *)
(***************************************************************************)
W8 == 2^8
W15 == 2^15
W16 == 2^16

\* The uint32_t with value n, for 0 <= n < 2^31.
U32(n) == <<n \div W16, n % W16>>

U32Zero == <<0, 0>>
U32Max == <<65535, 65535>>
Int32Min == <<32768, 0>>

IsZero32(a) == a = U32Zero

Add32(a, b) ==
    LET lo == a[2] + b[2]
        hi == a[1] + b[1] + (lo \div W16)
    IN  <<hi % W16, lo % W16>>

Sub32(a, b) ==
    LET lo == a[2] - b[2]
        borrow == IF lo < 0 THEN 1 ELSE 0
        hi == a[1] - b[1] - borrow
    IN  <<(hi + W16) % W16, (lo + W16) % W16>>

\* Unsigned comparison.
Lt32(a, b) == a[1] < b[1] \/ (a[1] = b[1] /\ a[2] < b[2])
Le32(a, b) == a = b \/ Lt32(a, b)

\* a >> 1 and (a << 1) mod 2^32.
Shr1(a) == <<a[1] \div 2, (a[1] % 2) * W15 + (a[2] \div 2)>>
Shl1(a) == <<((a[1] % W15) * 2) + (a[2] \div W15), (a[2] % W15) * 2>>

\* The value of a as an integer, for a < 2^31.
ToInt(a) == a[1] * W16 + a[2]

\* n / d for uint32_t, d # 0 (the quotient of unsigned division).
\*   d >= 2^31: the quotient is 0 or 1.
\*   n <  2^31: both fit an integer.
\*   otherwise: with h = n >> 1 = qh * d + rh and l = n & 1,
\*              n = 2 * qh * d + (2 * rh + l) and 2 * rh + l < 2 * d.
Div32(n, d) ==
    IF d[1] >= W15 THEN (IF Le32(d, n) THEN U32(1) ELSE U32Zero)
    ELSE IF n[1] < W15 THEN U32(ToInt(n) \div ToInt(d))
    ELSE LET h == ToInt(Shr1(n))
             l == n[2] % 2
             qh == h \div ToInt(d)
             rh == h % ToInt(d)
             extra == IF rh + l >= ToInt(d) - rh THEN 1 ELSE 0
         IN  Add32(Shl1(U32(qh)), U32(extra))

\* The full 32-bit product of two 16-bit numbers.
Mul16(x, y) ==
    LET p0 == x * (y % W8)
        p1 == x * (y \div W8)
    IN  Add32(<<p1 \div W8, 0>>, U32(p0 + (p1 % W8) * W8))

\* (a * b) mod 2^32.
Mul32(a, b) ==
    LET ll == Mul16(a[2], b[2])
        hl == Mul16(a[1], b[2])[2]
        lh == Mul16(a[2], b[1])[2]
    IN  <<(ll[1] + hl + lh) % W16, ll[2]>>

\* int32_t view of a 32-bit pattern: sign and signed comparison.
IsNeg32(a) == a[1] >= W15
SLt32(a, b) == IF IsNeg32(a) = IsNeg32(b) THEN Lt32(a, b) ELSE IsNeg32(a)

(***************************************************************************)
(* Bit operations on register and mode words (8 and 16 bits).              *)
(***************************************************************************)
\* (v >> k) & 1
BitAt(v, k) == (v \div 2^k) % 2

\* (v >> k) & m, for a mask m = 2^n - 1
Field(v, k, m) == (v \div 2^k) % (m + 1)

RECURSIVE BitOrFrom(_, _, _)
BitOrFrom(a, b, k) ==
    IF k > 15 THEN 0
    ELSE (IF BitAt(a, k) = 1 \/ BitAt(b, k) = 1 THEN 2^k ELSE 0)
         + BitOrFrom(a, b, k + 1)

RECURSIVE BitAndFrom(_, _, _)
BitAndFrom(a, b, k) ==
    IF k > 15 THEN 0
    ELSE (IF BitAt(a, k) = 1 /\ BitAt(b, k) = 1 THEN 2^k ELSE 0)
         + BitAndFrom(a, b, k + 1)

\* a | b and a & b
BitOr(a, b) == BitOrFrom(a, b, 0)
BitAnd(a, b) == BitAndFrom(a, b, 0)

(***************************************************************************)
(* Bit numbers of the USART1 registers (avr/io.h), as usart.c uses them.   *)
(***************************************************************************)
\* UCSR1A
RXC1 == 7
TXC1 == 6
UDRE1 == 5
U2X1 == 1
\* UCSR1B
RXCIE1 == 7
TXCIE1 == 6
UDRIE1 == 5
RXEN1 == 4
TXEN1 == 3
UCSZ12 == 2
\* UCSR1C
UMSEL10 == 6
UPM10 == 4
USBS1 == 3
UCSZ10 == 1
UCPOL1 == 0

\* hardware/usart.h and the queue's header are not part of src/: the two
\* enable flags of the mode word lie outside the frame-format fields
\* (bits 5..11 and 14..15), and the queue has a "new item" event class.
USART_MODE_RXEN == 2^12
USART_MODE_TXEN == 2^13
FIFO_EVT_NEW == 1

(***************************************************************************)
(* Bounds of the model.                                                    *)
(***************************************************************************)
\* Capacity of each byte queue.
FifoSize == 2
\* Bytes the application enqueues for transmission in a run.
MaxTx == 3
\* Bytes the line delivers to the receiver in a run.
MaxRx == 3
\* Byte values are 0..MaxByte.
MaxByte == 2
\* Bytes enqueued or delivered by the line, together, in a run of
\* SpecEnable.
MaxTraffic == 3

ByteSet == 0..MaxByte

VARIABLES
    f_cpu,          \* F_CPU, the build's clock in Hz (uint32_t)
    app_pc,         \* where the application context is
    baud,           \* usart_init: argument baud (uint32_t)
    mode,           \* usart_init: argument mode (uint16_t)
    ubrr_div16,     \* usart_init: local ubrr_div16
    ubrr_div8,      \* usart_init: local ubrr_div8
    init_ret,       \* <<r>> once usart_init has returned r, else <<>>
    ub,             \* the last usart_init evaluated an undefined expression
    stale,          \* line 65 cleared bits that the call does not ask for
    UCSR1A,         \* writable bits of UCSR1A (U2X1, MPCM1)
    UCSR1B,
    UCSR1C,
    UBRR1,
    txc,            \* UCSR1A.TXC1, the transmit-complete flag
    tx_udr,         \* transmit data register: <<>> (UDRE1 set) or <<byte>>
    tx_shift,       \* transmit shift register: <<>> or <<byte>>
    wire,           \* bytes shifted out on the line
    rx_buf,         \* receive buffer behind UDR1 (RXC1 set iff non-empty)
    usart_fifo_tx,  \* contents of the transmit queue
    consumer_evth,  \* usart_fifo_tx.consumer_evth is usart_txfifo_evth
    consumer_evtm,  \* usart_fifo_tx.consumer_evtm
    evth_events,    \* <<events>> of the last usart_txfifo_evth call, else <<>>
    usart_fifo_rx,  \* contents of the receive queue
    tx_enqueued,    \* bytes the application has enqueued, in order
    udr_written,    \* bytes usart_send_next has stored to UDR1, in order
    udr_ignored,    \* of these, the stores made while UDRE1 was clear
    tx_idle,        \* a pump found the queue empty and no kick came since
    idle_irq,       \* a transmit interrupt ran while tx_idle
    rx_read,        \* bytes USART1_RX_vect has read from UDR1, in order
    rx_yielded      \* bytes a consumer has taken from the receive queue

init_vars == <<baud, mode, ubrr_div16, ubrr_div8, init_ret, ub, stale>>
reg_vars == <<UCSR1A, UCSR1B, UCSR1C, UBRR1>>
tx_hw_vars == <<txc, tx_udr, tx_shift, wire>>
tx_q_vars == <<usart_fifo_tx, tx_enqueued>>
tx_hist_vars == <<udr_written, udr_ignored, tx_idle, idle_irq>>
hook_vars == <<consumer_evth, consumer_evtm, evth_events>>
rx_vars == <<rx_buf, usart_fifo_rx, rx_read, rx_yielded>>

vars == <<f_cpu, app_pc, init_vars, reg_vars, tx_hw_vars, tx_q_vars,
          tx_hist_vars, hook_vars, rx_vars>>

(***************************************************************************)
(* usart_init: baud-rate prescaler selection (lines 24-62).                *)
(***************************************************************************)
F_CPU_DIV_8 == Div32(f_cpu, U32(8))
F_CPU_DIV_16 == Div32(f_cpu, U32(16))

\* Division by zero is undefined in C.  avr-libgcc's __udivmodsi4 leaves
\* all ones in the quotient; a build may as well produce zero.
DivZeroOutcomes == {U32Zero, U32Max}

\* UBRR_VAL(f_cpu, baud) = ((f_cpu) + ((baud)/2))/(baud): the set of values
\* the expression can have (one value unless baud is 0).
UBRR_VAL(f, b) ==
    IF IsZero32(b) THEN DivZeroOutcomes
    ELSE {Div32(Add32(f, Shr1(b)), b)}

\* UBRR_ERR(f_cpu, div, baud) = ((f_cpu) * (div)) - (baud), in uint32_t,
\* then converted to int32_t (same bit pattern).
UBRR_ERR(f, div, b) == Sub32(Mul32(f, div), b)

\* if (err < 0) err = -err;  -INT32_MIN overflows, which is undefined:
\* the build may wrap (INT32_MIN again) or produce another value.
NegOverflows(e) == e = Int32Min
AbsOutcomes(e) ==
    IF NegOverflows(e) THEN {Int32Min, <<32767, 65535>>}
    ELSE IF IsNeg32(e) THEN {Sub32(U32Zero, e)}
    ELSE {e}

\* Lines 50-62: the values ubrr_div16 can have after the comparison.
PickDiv16(d16, d8, b) ==
    IF ~IsZero32(d16) /\ ~IsZero32(d8)
    THEN { IF SLt32(e8, e16) THEN U32Zero ELSE d16 :
             e16 \in AbsOutcomes(UBRR_ERR(F_CPU_DIV_16, d16, b)),
             e8 \in AbsOutcomes(UBRR_ERR(F_CPU_DIV_8, d8, b)) }
    ELSE {d16}

\* Whether lines 43-62 evaluate an undefined expression.
InitUndefined(d16, d8, b) ==
    \/ IsZero32(b)
    \/ /\ ~IsZero32(d16)
       /\ ~IsZero32(d8)
       /\ \/ NegOverflows(UBRR_ERR(F_CPU_DIV_16, d16, b))
          \/ NegOverflows(UBRR_ERR(F_CPU_DIV_8, d8, b))

\* Lines 67-71: the frame format word.
FrameFormat(m) ==
    BitOr(BitOr(BitOr(BitOr(Field(m, 14, 3) * 2^UMSEL10,
                            Field(m, 5, 3) * 2^UPM10),
                      Field(m, 8, 1) * 2^USBS1),
                Field(m, 9, 3) * 2^UCSZ10),
          Field(m, 7, 1) * 2^UCPOL1)

\* The enable word with UDRIE1 outside the transmit conditional: the
\* data-register-empty interrupt is enabled whatever the mode.
EnableWord_udrie_always(m) ==
    BitOr(BitOr(BitOr(IF BitAnd(m, USART_MODE_RXEN) # 0
                      THEN BitOr(2^RXCIE1, 2^RXEN1) ELSE 0,
                      IF BitAnd(m, USART_MODE_TXEN) # 0
                      THEN BitOr(2^TXCIE1, 2^TXEN1) ELSE 0),
                2^UDRIE1),
          Field(m, 11, 1) * 2^UCSZ12)

\* Lines 75-81: the word or-ed into UCSR1B: receive settings, transmit
\* settings and UCSZ12.
EnableWord(m) ==
    BitOr(BitOr(IF BitAnd(m, USART_MODE_RXEN) # 0
                THEN BitOr(2^RXCIE1, 2^RXEN1) ELSE 0,
                IF BitAnd(m, USART_MODE_TXEN) # 0
                THEN BitOr(BitOr(2^TXCIE1, 2^TXEN1), 2^UDRIE1) ELSE 0),
          Field(m, 11, 1) * 2^UCSZ12)

\* UCSR1B or UCSR1C holds a bit that the words of mode m do not have: a
\* bit of an earlier configuration that a call with mode m has to clear.
StaleAt(m) ==
    \/ BitAnd(UCSR1B, W8 - 1 - (EnableWord(m) % W8)) # 0
    \/ BitAnd(UCSR1C, W8 - 1 - (FrameFormat(m) % W8)) # 0

\* usart_init with the store of line 65 ahead of the test of line 47: a
\* call that returns -1 has disabled the device.
usart_init_disables_first(b, m) ==
    /\ app_pc = "idle"
    /\ \E d16 \in UBRR_VAL(F_CPU_DIV_16, b), d8 \in UBRR_VAL(F_CPU_DIV_8, b) :
         /\ ub' = InitUndefined(d16, d8, b)
         /\ ubrr_div8' = d8
         /\ IF IsZero32(d16) /\ IsZero32(d8)
            THEN /\ ubrr_div16' = d16
                 /\ init_ret' = <<-1>>
                 /\ app_pc' = "idle"
                 /\ UCSR1B' = 0
                 /\ rx_buf' = <<>>
            ELSE /\ ubrr_div16' \in PickDiv16(d16, d8, b)
                 /\ init_ret' = <<>>
                 /\ app_pc' = "init_shutdown"
                 /\ UNCHANGED <<UCSR1B, rx_buf>>
    /\ baud' = b
    /\ mode' = m
    /\ UNCHANGED <<f_cpu, stale, UCSR1A, UCSR1C, UBRR1, tx_hw_vars,
                   tx_q_vars, tx_hist_vars, hook_vars, usart_fifo_rx,
                   rx_read, rx_yielded>>

\* The call and lines 43-62: either return -1 or go on to program the
\* registers with the chosen divisors.
usart_init(b, m) ==
    /\ app_pc = "idle"
    /\ \E d16 \in UBRR_VAL(F_CPU_DIV_16, b), d8 \in UBRR_VAL(F_CPU_DIV_8, b) :
         /\ ub' = InitUndefined(d16, d8, b)
         /\ ubrr_div8' = d8
         /\ IF IsZero32(d16) /\ IsZero32(d8)
            THEN /\ ubrr_div16' = d16
                 /\ init_ret' = <<-1>>
                 /\ app_pc' = "idle"
            ELSE /\ ubrr_div16' \in PickDiv16(d16, d8, b)
                 /\ init_ret' = <<>>
                 /\ app_pc' = "init_shutdown"
    /\ baud' = b
    /\ mode' = m
    /\ UNCHANGED <<f_cpu, stale, reg_vars, tx_hw_vars, tx_q_vars, tx_hist_vars,
                   hook_vars, rx_vars>>

(***************************************************************************)
(* usart_init: register programming (lines 64-86), one store per step, so  *)
(* that interrupts are taken between the stores as on the device.          *)
(***************************************************************************)
\* usart_init without line 65: the enable bits of the previous
\* configuration stay set while the format and the rate are written.
usart_init_no_shutdown ==
    /\ app_pc = "init_shutdown"
    /\ app_pc' = "init_format"
    /\ UNCHANGED <<f_cpu, init_vars, reg_vars, tx_hw_vars, tx_q_vars,
                   tx_hist_vars, hook_vars, rx_vars>>

\* Line 65: UCSR1B = 0.  Clearing RXEN1 flushes the receive buffer.
usart_init_shutdown ==
    /\ app_pc = "init_shutdown"
    /\ UCSR1B' = 0
    /\ stale' = StaleAt(mode)
    /\ rx_buf' = <<>>
    /\ app_pc' = "init_format"
    /\ UNCHANGED <<f_cpu, baud, mode, ubrr_div16, ubrr_div8, init_ret, ub,
                   UCSR1A, UCSR1C, UBRR1, tx_hw_vars, tx_q_vars,
                   tx_hist_vars, hook_vars, usart_fifo_rx, rx_read,
                   rx_yielded>>

\* Lines 67-71 with |= for =: the format word is merged into what UCSR1C
\* holds.
usart_init_format_merges ==
    /\ app_pc = "init_format"
    /\ UCSR1C' = BitOr(UCSR1C, FrameFormat(mode)) % W8
    /\ app_pc' = "init_ubrr"
    /\ UNCHANGED <<f_cpu, init_vars, UCSR1A, UCSR1B, UBRR1, tx_hw_vars,
                   tx_q_vars, tx_hist_vars, hook_vars, rx_vars>>

\* Lines 67-71: UCSR1C = the frame format word.
usart_init_format ==
    /\ app_pc = "init_format"
    /\ UCSR1C' = FrameFormat(mode) % W8
    /\ app_pc' = "init_ubrr"
    /\ UNCHANGED <<f_cpu, init_vars, UCSR1A, UCSR1B, UBRR1, tx_hw_vars,
                   tx_q_vars, tx_hist_vars, hook_vars, rx_vars>>

\* Line 73: UBRR1 = (ubrr_div16) ? ubrr_div16 : ubrr_div8.  UBRR1 is a
\* 16-bit register: the store keeps the low half of the uint32_t.
ChosenDiv == IF ~IsZero32(ubrr_div16) THEN ubrr_div16 ELSE ubrr_div8

usart_init_ubrr ==
    /\ app_pc = "init_ubrr"
    /\ UBRR1' = ChosenDiv[2]
    /\ app_pc' = "init_ucsr1a"
    /\ UNCHANGED <<f_cpu, init_vars, UCSR1A, UCSR1B, UCSR1C, tx_hw_vars,
                   tx_q_vars, tx_hist_vars, hook_vars, rx_vars>>

\* Line 74: UCSR1A = (ubrr_div16) ? 0 : U2X1.  The value stored is the bit
\* number U2X1 itself, not (1 << U2X1).  Of UCSR1A only U2X1 and MPCM1
\* (bits 1 and 0) are storage; TXC1 is cleared by storing a one to it.
DoubleSpeedWord == IF ~IsZero32(ubrr_div16) THEN 0 ELSE U2X1

usart_init_ucsr1a ==
    /\ app_pc = "init_ucsr1a"
    /\ UCSR1A' = DoubleSpeedWord % 4
    /\ txc' = (IF BitAt(DoubleSpeedWord, TXC1) = 1 THEN FALSE ELSE txc)
    /\ app_pc' = "init_enable"
    /\ UNCHANGED <<f_cpu, init_vars, UCSR1B, UCSR1C, UBRR1, tx_udr,
                   tx_shift, wire, tx_q_vars, tx_hist_vars, hook_vars,
                   rx_vars>>

\* Lines 75-81: UCSR1B |= the enable word.
usart_init_enable ==
    /\ app_pc = "init_enable"
    /\ UCSR1B' = BitOr(UCSR1B, EnableWord(mode)) % W8
    /\ app_pc' = "init_evth"
    /\ UNCHANGED <<f_cpu, init_vars, UCSR1A, UCSR1C, UBRR1, tx_hw_vars,
                   tx_q_vars, tx_hist_vars, hook_vars, rx_vars>>

\* Line 84: usart_fifo_tx.consumer_evth = usart_txfifo_evth.
usart_init_evth ==
    /\ app_pc = "init_evth"
    /\ consumer_evth' = TRUE
    /\ app_pc' = "init_evtm"
    /\ UNCHANGED <<f_cpu, init_vars, reg_vars, tx_hw_vars, tx_q_vars,
                   tx_hist_vars, consumer_evtm, evth_events, rx_vars>>

\* Lines 85-86: usart_fifo_tx.consumer_evtm = FIFO_EVT_NEW; return 0.
usart_init_evtm ==
    /\ app_pc = "init_evtm"
    /\ consumer_evtm' = FIFO_EVT_NEW
    /\ init_ret' = <<0>>
    /\ app_pc' = "idle"
    /\ UNCHANGED <<f_cpu, baud, mode, ubrr_div16, ubrr_div8, ub, stale,
                   reg_vars,
                   tx_hw_vars, tx_q_vars, tx_hist_vars, consumer_evth,
                   evth_events, rx_vars>>

(***************************************************************************)
(* The byte queues.  Their code is not part of src/: a queue is a FIFO of  *)
(* at most FifoSize bytes, fifo_write_one refuses a byte when full and     *)
(* tells the consumer handler of a new item, fifo_read_one yields the      *)
(* oldest byte or -1 when empty; both are atomic with respect to           *)
(* interrupts.                                                             *)
(***************************************************************************)
FifoFull(q) == Len(q) >= FifoSize
FifoPush(q, byte) == IF FifoFull(q) THEN q ELSE Append(q, byte)
FifoPeek(q) == IF q = <<>> THEN -1 ELSE Head(q)
FifoPop(q) == IF q = <<>> THEN q ELSE Tail(q)

\* The application enqueues a byte for transmission.  The queue then calls
\* the consumer handler, if one is installed for the new-item event.
fifo_write_one(byte) ==
    /\ app_pc = "idle"
    /\ Len(tx_enqueued) < MaxTx
    /\ ~FifoFull(usart_fifo_tx)
    /\ usart_fifo_tx' = FifoPush(usart_fifo_tx, byte)
    /\ tx_enqueued' = Append(tx_enqueued, byte)
    /\ tx_idle' = FALSE
    /\ idle_irq' = FALSE
    /\ app_pc' = IF consumer_evth /\ BitAnd(consumer_evtm, FIFO_EVT_NEW) # 0
                 THEN "evth" ELSE "idle"
    /\ UNCHANGED <<f_cpu, init_vars, reg_vars, tx_hw_vars, udr_written,
                   udr_ignored, hook_vars, rx_vars>>

\* The application takes a byte from the receive queue.
fifo_read_one ==
    /\ app_pc = "idle"
    /\ usart_fifo_rx # <<>>
    /\ rx_yielded' = Append(rx_yielded, FifoPeek(usart_fifo_rx))
    /\ usart_fifo_rx' = FifoPop(usart_fifo_rx)
    /\ UNCHANGED <<f_cpu, app_pc, init_vars, reg_vars, tx_hw_vars,
                   tx_q_vars, tx_hist_vars, hook_vars, rx_buf, rx_read>>

(***************************************************************************)
(* Transmit path (lines 89-101, 106-111).                                  *)
(***************************************************************************)
\* UCSR1A as the CPU reads it: RXC1, TXC1, UDRE1 and the stored bits.
UCSR1A_Read ==
    (IF rx_buf # <<>> THEN 2^RXC1 ELSE 0) + (IF txc THEN 2^TXC1 ELSE 0)
        + (IF tx_udr = <<>> THEN 2^UDRE1 ELSE 0) + UCSR1A

\* The hook without the test of line 90: it stores to UCSR1A whatever the
\* events are.
usart_txfifo_evth_any(events) ==
    /\ app_pc = "evth"
    /\ LET v == BitOr(UCSR1A_Read, 2^TXC1)
       IN  /\ UCSR1A' = v % 4
           /\ txc' = (IF BitAt(v, TXC1) = 1 THEN FALSE ELSE txc)
    /\ evth_events' = <<events>>
    /\ app_pc' = "idle"
    /\ UNCHANGED <<f_cpu, init_vars, UCSR1B, UCSR1C, UBRR1, tx_udr,
                   tx_shift, wire, tx_q_vars, tx_hist_vars, consumer_evth,
                   consumer_evtm, rx_vars>>

\* Lines 89-94: on a new-item event, UCSR1A |= (1 << TXC1).  The store
\* writes back the stored bits as read and a one to TXC1; the device
\* clears TXC1 when a one is stored to it.
usart_txfifo_evth(events) ==
    /\ app_pc = "evth"
    /\ IF BitAnd(events, FIFO_EVT_NEW) # 0
       THEN LET v == BitOr(UCSR1A_Read, 2^TXC1)
            IN  /\ UCSR1A' = v % 4
                /\ txc' = (IF BitAt(v, TXC1) = 1 THEN FALSE ELSE txc)
       ELSE UNCHANGED <<UCSR1A, txc>>
    /\ evth_events' = <<events>>
    /\ app_pc' = "idle"
    /\ UNCHANGED <<f_cpu, init_vars, UCSR1B, UCSR1C, UBRR1, tx_udr,
                   tx_shift, wire, tx_q_vars, tx_hist_vars, consumer_evth,
                   consumer_evtm, rx_vars>>

\* UDR1 = byte: the device takes the byte if the data register is empty
\* (UDRE1 set) and ignores the store otherwise.
StoreUDR1(byte) ==
    /\ udr_written' = Append(udr_written, byte)
    /\ IF tx_udr = <<>>
       THEN /\ tx_udr' = <<byte>>
            /\ udr_ignored' = udr_ignored
       ELSE /\ tx_udr' = tx_udr
            /\ udr_ignored' = Append(udr_ignored, byte)

\* usart_send_next with the test reading byte > 0: a zero byte is taken
\* from the queue and not sent.
usart_send_next_skips_zero ==
    LET byte == FifoPeek(usart_fifo_tx)
    IN  /\ usart_fifo_tx' = FifoPop(usart_fifo_tx)
        /\ IF byte > 0
           THEN StoreUDR1(byte) /\ tx_idle' = tx_idle
           ELSE /\ UNCHANGED <<udr_written, tx_udr, udr_ignored>>
                /\ tx_idle' = (byte < 0 \/ tx_idle)

\* usart_send_next without the test: the -1 of an empty queue is stored
\* to UDR1 as the byte 255.
usart_send_next_unchecked ==
    LET byte == FifoPeek(usart_fifo_tx)
    IN  /\ usart_fifo_tx' = FifoPop(usart_fifo_tx)
        /\ StoreUDR1((byte + W8) % W8)
        /\ tx_idle' = (byte < 0 \/ tx_idle)

\* usart_send_next looping until the queue is empty: every queued byte is
\* stored to UDR1 in the one invocation; the device takes the first if
\* UDRE1 is set and ignores the others.
usart_send_next_drains ==
    /\ usart_fifo_tx' = <<>>
    /\ udr_written' = udr_written \o usart_fifo_tx
    /\ IF usart_fifo_tx = <<>>
       THEN UNCHANGED <<tx_udr, udr_ignored>>
       ELSE IF tx_udr = <<>>
            THEN /\ tx_udr' = <<Head(usart_fifo_tx)>>
                 /\ udr_ignored' = udr_ignored \o Tail(usart_fifo_tx)
            ELSE /\ tx_udr' = tx_udr
                 /\ udr_ignored' = udr_ignored \o usart_fifo_tx
    /\ tx_idle' = TRUE

\* Lines 96-101: take one byte from the transmit queue; if there is one,
\* store it to UDR1.
usart_send_next ==
    LET byte == FifoPeek(usart_fifo_tx)
    IN  /\ usart_fifo_tx' = FifoPop(usart_fifo_tx)
        /\ IF byte >= 0
           THEN StoreUDR1(byte) /\ tx_idle' = tx_idle
           ELSE /\ UNCHANGED <<udr_written, tx_udr, udr_ignored>>
                /\ tx_idle' = TRUE

\* Lines 106-108: transmit complete.  Taken when TXCIE1 and TXC1 are set;
\* the device clears TXC1 on entry.
USART1_TX_vect ==
    /\ BitAt(UCSR1B, TXCIE1) = 1
    /\ txc
    /\ txc' = FALSE
    /\ idle_irq' = (idle_irq \/ tx_idle)
    /\ usart_send_next
    /\ UNCHANGED <<f_cpu, app_pc, init_vars, reg_vars, tx_shift, wire,
                   tx_enqueued, hook_vars, rx_vars>>

\* Lines 109-111: data register empty.  Taken when UDRIE1 and UDRE1 are
\* set; only a store to UDR1 clears UDRE1.
USART1_UDRE_vect ==
    /\ BitAt(UCSR1B, UDRIE1) = 1
    /\ tx_udr = <<>>
    /\ idle_irq' = (idle_irq \/ tx_idle)
    /\ usart_send_next
    /\ UNCHANGED <<f_cpu, app_pc, init_vars, reg_vars, txc, tx_shift, wire,
                   tx_enqueued, hook_vars, rx_vars>>

\* The transmitter moves the byte in UDR1 to the idle shift register.
TxLoadShift ==
    /\ tx_udr # <<>>
    /\ tx_shift = <<>>
    /\ tx_shift' = tx_udr
    /\ tx_udr' = <<>>
    /\ UNCHANGED <<f_cpu, app_pc, init_vars, reg_vars, txc, wire, tx_q_vars,
                   tx_hist_vars, hook_vars, rx_vars>>

\* A frame has left the shift register: the next byte is taken from UDR1,
\* or, UDR1 being empty, TXC1 is set.
TxFrameSent ==
    /\ tx_shift # <<>>
    /\ wire' = wire \o tx_shift
    /\ IF tx_udr # <<>>
       THEN tx_shift' = tx_udr /\ tx_udr' = <<>> /\ txc' = txc
       ELSE tx_shift' = <<>> /\ tx_udr' = tx_udr /\ txc' = TRUE
    /\ UNCHANGED <<f_cpu, app_pc, init_vars, reg_vars, tx_q_vars,
                   tx_hist_vars, hook_vars, rx_vars>>

(***************************************************************************)
(* Receive path (lines 103-105).                                           *)
(***************************************************************************)
\* A frame arrives while the receiver is enabled.  The receive buffer
\* holds two bytes; a frame arriving when it is full is lost on the line.
RxBufSize == 2

RxFrame(byte) ==
    /\ BitAt(UCSR1B, RXEN1) = 1
    /\ Len(rx_buf) < RxBufSize
    /\ Len(rx_read) + Len(rx_buf) < MaxRx
    /\ rx_buf' = Append(rx_buf, byte)
    /\ UNCHANGED <<f_cpu, app_pc, init_vars, reg_vars, tx_hw_vars,
                   tx_q_vars, tx_hist_vars, hook_vars, usart_fifo_rx,
                   rx_read, rx_yielded>>

\* A handler that makes room for the new byte by discarding the oldest.
USART1_RX_vect_drops_oldest ==
    /\ BitAt(UCSR1B, RXCIE1) = 1
    /\ rx_buf # <<>>
    /\ rx_buf' = Tail(rx_buf)
    /\ rx_read' = Append(rx_read, Head(rx_buf))
    /\ usart_fifo_rx' =
         IF FifoFull(usart_fifo_rx)
         THEN Append(Tail(usart_fifo_rx), Head(rx_buf))
         ELSE Append(usart_fifo_rx, Head(rx_buf))
    /\ UNCHANGED <<f_cpu, app_pc, init_vars, reg_vars, tx_hw_vars,
                   tx_q_vars, tx_hist_vars, hook_vars, rx_yielded>>

\* A handler that reads the newest byte of the receive buffer.
USART1_RX_vect_reads_newest ==
    /\ BitAt(UCSR1B, RXCIE1) = 1
    /\ rx_buf # <<>>
    /\ rx_buf' = SubSeq(rx_buf, 1, Len(rx_buf) - 1)
    /\ rx_read' = Append(rx_read, Head(rx_buf))
    /\ usart_fifo_rx' = FifoPush(usart_fifo_rx, rx_buf[Len(rx_buf)])
    /\ UNCHANGED <<f_cpu, app_pc, init_vars, reg_vars, tx_hw_vars,
                   tx_q_vars, tx_hist_vars, hook_vars, rx_yielded>>

\* Lines 103-105: receive complete.  Taken when RXCIE1 and RXC1 are set.
\* Reading UDR1 takes the oldest byte out of the receive buffer; it is
\* handed to fifo_write_one, whose result is not looked at.
USART1_RX_vect ==
    /\ BitAt(UCSR1B, RXCIE1) = 1
    /\ rx_buf # <<>>
    /\ rx_buf' = Tail(rx_buf)
    /\ rx_read' = Append(rx_read, Head(rx_buf))
    /\ usart_fifo_rx' = FifoPush(usart_fifo_rx, Head(rx_buf))
    /\ UNCHANGED <<f_cpu, app_pc, init_vars, reg_vars, tx_hw_vars,
                   tx_q_vars, tx_hist_vars, hook_vars, rx_yielded>>

(***************************************************************************)
(* Initial state: the device after reset, the queues empty and without a   *)
(* consumer handler, usart_init not yet called.                            *)
(***************************************************************************)
Reset ==
    /\ app_pc = "idle"
    /\ baud = U32Zero
    /\ mode = 0
    /\ ubrr_div16 = U32Zero
    /\ ubrr_div8 = U32Zero
    /\ init_ret = <<>>
    /\ ub = FALSE
    /\ stale = FALSE
    /\ UCSR1A = 0
    /\ UCSR1B = 0
    /\ UCSR1C = 0
    /\ UBRR1 = 0
    /\ txc = FALSE
    /\ tx_udr = <<>>
    /\ tx_shift = <<>>
    /\ wire = <<>>
    /\ rx_buf = <<>>
    /\ usart_fifo_tx = <<>>
    /\ consumer_evth = FALSE
    /\ consumer_evtm = 0
    /\ evth_events = <<>>
    /\ usart_fifo_rx = <<>>
    /\ tx_enqueued = <<>>
    /\ udr_written = <<>>
    /\ udr_ignored = <<>>
    /\ tx_idle = FALSE
    /\ idle_irq = FALSE
    /\ rx_read = <<>>
    /\ rx_yielded = <<>>

(***************************************************************************)
(* SpecInit: usart_init alone, over a range of clocks, bauds and modes.    *)
(***************************************************************************)
\* Clocks: common crystals, a power-of-two crystal and a slow clock.
FCpuSet == {U32(16000000), U32(8000000), U32(4194304), U32(1000000),
            U32(32768)}

BaudSet == {U32Zero, U32(1), U32(4), U32(15), U32(300), U32(9600),
            U32(57600), U32(115200), U32(250000), U32(1000000),
            U32(3000000), U32(5000000), <<32768, 0>>, U32Max}

\* 8N1 with and without the enable flags, and a word with every format
\* field set.
Mode8N1 == 3 * 2^9
ModeSet == {0, Mode8N1, Mode8N1 + USART_MODE_TXEN,
            Mode8N1 + USART_MODE_RXEN + USART_MODE_TXEN,
            65535 - USART_MODE_RXEN}

InitSteps ==
    \/ usart_init_shutdown
    \/ usart_init_format
    \/ usart_init_ubrr
    \/ usart_init_ucsr1a
    \/ usart_init_enable
    \/ usart_init_evth
    \/ usart_init_evtm

InitInit == Reset /\ f_cpu \in FCpuSet

NextInit ==
    \/ \E b \in BaudSet, m \in ModeSet : usart_init(b, m)
    \/ InitSteps

SpecInit == InitInit /\ [][NextInit]_vars

(***************************************************************************)
(* SpecTx: the transmit path.  The application initialises (and may        *)
(* re-initialise) the driver and enqueues bytes; the interrupts and the    *)
(* transmitter run at any time they are enabled.  An interrupt may be      *)
(* delayed (the application or another handler runs with interrupts off),  *)
(* and the order in which pending interrupts are taken is left open.       *)
(***************************************************************************)
TxClock == U32(16000000)
TxBaudSet == {U32(9600)}
TxModeSet == {Mode8N1, Mode8N1 + USART_MODE_TXEN}

\* The events the queue hands to the consumer handler: those of its mask.
Delivered == BitAnd(FIFO_EVT_NEW, consumer_evtm)

InitTx == Reset /\ f_cpu = TxClock

NextTx ==
    \/ \E b \in TxBaudSet, m \in TxModeSet : usart_init(b, m)
    \/ InitSteps
    \/ \E byte \in ByteSet : fifo_write_one(byte)
    \/ usart_txfifo_evth(Delivered)
    \/ USART1_TX_vect
    \/ USART1_UDRE_vect
    \/ TxLoadShift
    \/ TxFrameSent

SpecTx == InitTx /\ [][NextTx]_vars

\* The transmitter always finishes a frame, and the data-register-empty
\* interrupt, once it stays enabled and pending, is eventually taken.
\* Nothing of the kind holds of the transmit-complete interrupt: the
\* data-register-empty interrupt has the higher priority and stays
\* pending while UDR1 is empty (UDRIE1 is never cleared), so a pending
\* transmit-complete interrupt may wait for ever.
FairSpecTx ==
    /\ SpecTx
    /\ WF_vars(USART1_UDRE_vect)
    /\ WF_vars(TxLoadShift)
    /\ WF_vars(TxFrameSent)

(***************************************************************************)
(* SpecHook: the transmit path with the hook called with any events: the   *)
(* new-item event, another event class, both or none.  The bytes enqueued  *)
(* are all 0: their values play no part in what the hook does.             *)
(***************************************************************************)
HookEventSet == {0, FIFO_EVT_NEW, 2 * FIFO_EVT_NEW, 3 * FIFO_EVT_NEW}

NextHook ==
    \/ \E b \in TxBaudSet, m \in TxModeSet : usart_init(b, m)
    \/ InitSteps
    \/ fifo_write_one(0)
    \/ \E events \in HookEventSet : usart_txfifo_evth(events)
    \/ USART1_TX_vect
    \/ USART1_UDRE_vect
    \/ TxLoadShift
    \/ TxFrameSent

SpecHook == InitTx /\ [][NextHook]_vars

(***************************************************************************)
(* SpecRx: the receive path.                                               *)
(***************************************************************************)
RxModeSet == {Mode8N1, Mode8N1 + USART_MODE_RXEN}

NextRx ==
    \/ \E b \in TxBaudSet, m \in RxModeSet : usart_init(b, m)
    \/ InitSteps
    \/ \E byte \in ByteSet : RxFrame(byte)
    \/ USART1_RX_vect
    \/ fifo_read_one

SpecRx == InitTx /\ [][NextRx]_vars

(***************************************************************************)
(* SpecEnable: both directions together, with every combination of the    *)
(* two enable flags.                                                       *)
(***************************************************************************)
EnableModeSet == {Mode8N1, Mode8N1 + USART_MODE_RXEN,
                  Mode8N1 + USART_MODE_TXEN,
                  Mode8N1 + USART_MODE_RXEN + USART_MODE_TXEN}

\* Bytes enqueued for transmission or delivered by the line so far.
Traffic == Len(tx_enqueued) + Len(rx_read) + Len(rx_buf)

NextEnable ==
    \/ \E b \in TxBaudSet, m \in EnableModeSet : usart_init(b, m)
    \/ InitSteps
    \/ Traffic < MaxTraffic /\ fifo_write_one(0)
    \/ usart_txfifo_evth(Delivered)
    \/ USART1_TX_vect
    \/ USART1_UDRE_vect
    \/ TxLoadShift
    \/ TxFrameSent
    \/ Traffic < MaxTraffic /\ RxFrame(0)
    \/ USART1_RX_vect
    \/ fifo_read_one

SpecEnable == InitTx /\ [][NextEnable]_vars

(***************************************************************************)
(* Properties of the transmit path.                                        *)
(***************************************************************************)
IsPrefix(p, q) == Len(p) <= Len(q) /\ SubSeq(q, 1, Len(p)) = p

\* The transmit interrupts are enabled.
TxIrqOn == BitAt(UCSR1B, UDRIE1) = 1 /\ BitAt(UCSR1B, TXCIE1) = 1

\* Every byte enqueued is either still queued or has been stored to UDR1,
\* in the order of enqueuing.
TxConserved == udr_written \o usart_fifo_tx = tx_enqueued

\* A step stores at most one byte to UDR1 and takes exactly as many bytes
\* from the queue as it stores.
OneBytePerPump ==
    /\ Len(udr_written') <= Len(udr_written) + 1
    /\ Len(udr_written') > Len(udr_written) =>
         (/\ usart_fifo_tx # <<>>
          /\ usart_fifo_tx' = Tail(usart_fifo_tx)
          /\ udr_written' = Append(udr_written, Head(usart_fifo_tx)))

\* C1: the bytes pushed onto the transmit queue are consumed one per pump
\* invocation and stored to UDR1 in the order of enqueuing, and with the
\* transmit interrupts on the queue is eventually empty: the bytes stored
\* are then the bytes enqueued.
C1_RoundTrip ==
    /\ [](TxConserved)
    /\ [][OneBytePerPump]_vars
    /\ (usart_fifo_tx # <<>>) ~> (usart_fifo_tx = <<>> \/ ~TxIrqOn)

\* After a successful usart_init with the transmit flag, MaxTx bytes were
\* pushed, all were stored to UDR1 in order and all went out on the line.
C1_Witness ==
    /\ init_ret = <<0>>
    /\ TxIrqOn
    /\ Len(tx_enqueued) = MaxTx
    /\ usart_fifo_tx = <<>>
    /\ udr_written = tx_enqueued
    /\ wire = tx_enqueued

\* C2: the bytes stored so far to UDR1 are a prefix of the bytes enqueued
\* so far.
C2_FifoOrder == IsPrefix(udr_written, tx_enqueued)

\* Two different bytes were enqueued while the first was still unsent and
\* both were stored in that order; a third is still queued.
C2_Witness ==
    /\ Len(udr_written) = 2
    /\ udr_written[1] # udr_written[2]
    /\ Len(tx_enqueued) = 3
    /\ usart_fifo_tx # <<>>

\* C3: no byte is stored twice, and the number of bytes taken from the
\* transmit queue equals the number of bytes the device took from the
\* stores to UDR1, also while the event hook runs during a transmission
\* and an interrupt pumps at the same time.
C3_NoDoublePump ==
    /\ IsPrefix(udr_written, tx_enqueued)
    /\ Len(tx_enqueued) - Len(usart_fifo_tx)
         = Len(udr_written) - Len(udr_ignored)

\* C4: once a pump has found the transmit queue empty, no transmit
\* interrupt runs until the application enqueues a byte.
C4_IdleUntilKick == ~idle_irq

(***************************************************************************)
(* Properties of the receive path.                                         *)
(***************************************************************************)
\* C5: as long as no more bytes have arrived than the receive queue
\* holds, the bytes the handler read from UDR1 are, in order, the bytes
\* the consumer has taken followed by the bytes still queued.
C5_RxInOrder ==
    Len(rx_read) <= FifoSize => rx_yielded \o usart_fifo_rx = rx_read

\* FifoSize distinct bytes arrived and the consumer has taken them all.
C5_Witness ==
    /\ Len(rx_read) = FifoSize
    /\ rx_yielded = rx_read
    /\ \A i, j \in 1..Len(rx_read) : i # j => rx_read[i] # rx_read[j]

\* C6: the handler invoked with the receive queue full reads UDR1 (the
\* byte leaves the receive buffer), leaves the queue as it is and returns
\* to the interrupted code.
C6_FullQueueDrop ==
    [][(Len(rx_read') > Len(rx_read) /\ FifoFull(usart_fifo_rx)) =>
          /\ usart_fifo_rx' = usart_fifo_rx
          /\ rx_buf' = Tail(rx_buf)
          /\ rx_read' = Append(rx_read, Head(rx_buf))
          /\ app_pc' = app_pc
          /\ rx_yielded' = rx_yielded]_vars

\* A byte has been read from UDR1 and dropped: more bytes were read than
\* the consumer and the full queue hold.
C6_Witness ==
    /\ FifoFull(usart_fifo_rx)
    /\ Len(rx_read) > Len(rx_yielded) + Len(usart_fifo_rx)
    /\ rx_buf = <<>>

(***************************************************************************)
(* Properties of the baud-rate selection, checked under SpecInit.          *)
(***************************************************************************)
\* usart_init has been called: its arguments and locals are those of the
\* call in progress or of the last call.
Called == init_ret # <<>> \/ app_pc # "idle"

\* round-half-up of n / d is zero, that is 2 * n < d.
RoundsToZero(n, d) == Lt32(n, d) /\ Lt32(n, Sub32(d, n))

BothRoundToZero ==
    RoundsToZero(F_CPU_DIV_16, baud) /\ RoundsToZero(F_CPU_DIV_8, baud)

\* C7: for a baud > 0, usart_init returns -1 if and only if both
\* round-half-up divisors are zero; in every other case it returns 0 with
\* a divisor of at least 1 in the baud-rate register.
C7_FailsIffBothZero ==
    (Called /\ ~IsZero32(baud)) =>
        /\ (init_ret = <<-1>>) <=> BothRoundToZero
        /\ (init_ret = <<0>>) => UBRR1 >= 1

\* The divisor of one factor as lines 43-44 compute it, for a baud > 0.
Div16Of(b) == CHOOSE d \in UBRR_VAL(F_CPU_DIV_16, b) : TRUE
Div8Of(b) == CHOOSE d \in UBRR_VAL(F_CPU_DIV_8, b) : TRUE

\* |f - b * d|: the distance of the effective rate f / d from b, times d.
\* With d the rounded quotient of f by b it is at most b / 2.
Residual(f, d, b) ==
    LET x == ToInt(f) - ToInt(b) * ToInt(d)
    IN  IF x < 0 THEN -x ELSE x

\* |F/8/d8 - baud| < |F/16/d16 - baud|, cross-multiplied by d8 * d16.
Div8StrictlyCloser(b) ==
    Residual(F_CPU_DIV_8, Div8Of(b), b) * ToInt(Div16Of(b))
        < Residual(F_CPU_DIV_16, Div16Of(b), b) * ToInt(Div8Of(b))

BothFeasible(b) ==
    ~IsZero32(b) /\ ~IsZero32(Div16Of(b)) /\ ~IsZero32(Div8Of(b))

\* C8: when both factors give a non-zero divisor, the factor with the
\* smaller distance between its effective rate clock / (f * divisor_f) and
\* the requested baud is selected, /8 only when strictly closer.
C8_PicksClosest ==
    (Called /\ BothFeasible(baud)) =>
        (IsZero32(ubrr_div16) <=> Div8StrictlyCloser(baud))

\* C9: when exactly one factor gives a non-zero divisor, that factor and
\* its divisor are what usart_init programs: the baud-rate register holds
\* the divisor and the double-speed bit U2X1 of UCSR1A tells the factor.
C9_OnlyFeasibleProgrammed ==
    (/\ init_ret = <<0>>
     /\ ~IsZero32(baud)
     /\ IsZero32(Div16Of(baud)) # IsZero32(Div8Of(baud))) =>
        IF IsZero32(Div16Of(baud))
        THEN UBRR1 = ToInt(Div8Of(baud)) /\ BitAt(UCSR1A, U2X1) = 1
        ELSE UBRR1 = ToInt(Div16Of(baud)) /\ BitAt(UCSR1A, U2X1) = 0

\* C10: usart_init called with baud = 0 returns -1 and evaluates no
\* undefined expression.
C10_ZeroBaudFails ==
    (Called /\ IsZero32(baud)) => (init_ret = <<-1>> /\ ~ub)

(***************************************************************************)
(* Properties of the register programming, checked under SpecInit.         *)
(***************************************************************************)
\* The /16 factor won the selection: ubrr_div16 is kept (line 73 takes it).
Div16Won == ~IsZero32(ubrr_div16)

\* C11: after a successful usart_init the double-speed bit U2X1 of UCSR1A
\* is set if and only if the /16 factor won the selection, and the
\* baud-rate register holds the divisor of the winning factor.
C11_DoubleSpeedAndDivisor ==
    (init_ret = <<0>>) =>
        /\ (BitAt(UCSR1A, U2X1) = 1) <=> Div16Won
        /\ <<0, UBRR1>> = ChosenDiv

\* The enable and interrupt-enable bits of UCSR1B.
EnableBits == {RXCIE1, TXCIE1, UDRIE1, RXEN1, TXEN1}

\* The bits of EnableBits that are set in a register value.
BitsSet(v) == {k \in EnableBits : BitAt(v, k) = 1}

\* The enable bits that the mode word asks for (lines 75-80).
Requested(m) ==
    (IF BitAnd(m, USART_MODE_RXEN) # 0 THEN {RXCIE1, RXEN1} ELSE {})
        \cup (IF BitAnd(m, USART_MODE_TXEN) # 0
              THEN {TXCIE1, TXEN1, UDRIE1} ELSE {})

\* Between the store of line 65 and the store of lines 75-81.
Programming ==
    app_pc \in {"init_format", "init_ubrr", "init_ucsr1a", "init_enable"}

\* C12: in a usart_init call that goes on to program the device, the first
\* register store clears UCSR1B, the stores that follow write the frame
\* format, the divisor and the double-speed word and leave UCSR1B alone,
\* and the last register store sets all requested enable and
\* interrupt-enable bits at once; between the first and the last store no
\* bit of UCSR1B is set.
C12_DisableProgramEnable ==
    /\ [](Programming => UCSR1B = 0)
    /\ [][(app_pc = "idle" /\ app_pc' # "idle") => (UNCHANGED reg_vars)]_vars
    /\ [][app_pc = "init_shutdown" =>
            (UCSR1B' = 0 /\ UNCHANGED <<UCSR1A, UCSR1C, UBRR1>>)]_vars
    /\ [][app_pc = "init_format" =>
            UNCHANGED <<UCSR1A, UCSR1B, UBRR1>>]_vars
    /\ [][app_pc = "init_ubrr" =>
            UNCHANGED <<UCSR1A, UCSR1B, UCSR1C>>]_vars
    /\ [][app_pc = "init_ucsr1a" =>
            UNCHANGED <<UCSR1B, UCSR1C, UBRR1>>]_vars
    /\ [][app_pc = "init_enable" =>
            (/\ BitsSet(UCSR1B') = Requested(mode)
             /\ UNCHANGED <<UCSR1A, UCSR1C, UBRR1>>)]_vars
    /\ [][(app_pc \in {"init_evth", "init_evtm"}) =>
            (UNCHANGED reg_vars)]_vars

\* A second call, after one that enabled receiver and transmitter, has
\* written a new frame format and not yet the new divisor; the enable bits
\* it asks for are not set yet.
C12_Witness ==
    /\ app_pc = "init_ubrr"
    /\ consumer_evth
    /\ Requested(mode) # {}
    /\ UCSR1B = 0
    /\ UCSR1C = FrameFormat(mode) % W8
    /\ UBRR1 # ChosenDiv[2]

\* What lines 73-74 leave in <<UBRR1, UCSR1A>> for a baud: one pair,
\* unless the selection for this baud evaluates an undefined expression.
RateWords(b) ==
    UNION { UNION { { IF ~IsZero32(p) THEN <<p[2], 0>> ELSE <<d8[2], U2X1 % 4>> :
                        p \in PickDiv16(d16, d8, b) } :
                    d8 \in UBRR_VAL(F_CPU_DIV_8, b) } :
            d16 \in UBRR_VAL(F_CPU_DIV_16, b) }

\* C13: after a successful usart_init the control registers and the
\* baud-rate register hold what the baud and the mode of that call
\* determine, whatever an earlier call had left in them: UCSR1B is the
\* enable word of the mode, UCSR1C its format word, and UBRR1 and the
\* stored bits of UCSR1A are those of the baud.
C13_ReinitOverwrites ==
    (init_ret = <<0>>) =>
        /\ UCSR1B = EnableWord(mode) % W8
        /\ UCSR1C = FrameFormat(mode) % W8
        /\ <<UBRR1, UCSR1A>> \in RateWords(baud)

\* A call whose mode asks for no enable bit has succeeded after it found,
\* from an earlier call, enable or format bits set which its mode does not
\* ask for.
C13_Witness ==
    /\ init_ret = <<0>>
    /\ stale
    /\ ~ub
    /\ EnableWord(mode) % W8 = 0
    /\ UCSR1B = 0
    /\ UCSR1C = FrameFormat(mode) % W8

(***************************************************************************)
(* Properties of the enable flags, checked under SpecEnable.               *)
(***************************************************************************)
\* The last usart_init call returned 0; the enable flags of its mode.
Configured == init_ret = <<0>>
RxFlag == BitAnd(mode, USART_MODE_RXEN) # 0
TxFlag == BitAnd(mode, USART_MODE_TXEN) # 0

\* C14: after a successful usart_init, RXEN1 and RXCIE1 are set if and only
\* if the mode has USART_MODE_RXEN, and TXEN1, TXCIE1 and UDRIE1 are set if
\* and only if it has USART_MODE_TXEN; while the mode lacks the transmit
\* flag no step takes a byte from the transmit queue or stores to UDR1, and
\* while it lacks the receive flag no step adds a byte to the receive
\* queue.
C14_EnabledIffFlag ==
    /\ [](Configured =>
            /\ (BitAt(UCSR1B, RXEN1) = 1) <=> RxFlag
            /\ (BitAt(UCSR1B, RXCIE1) = 1) <=> RxFlag
            /\ (BitAt(UCSR1B, TXEN1) = 1) <=> TxFlag
            /\ (BitAt(UCSR1B, TXCIE1) = 1) <=> TxFlag
            /\ (BitAt(UCSR1B, UDRIE1) = 1) <=> TxFlag)
    /\ [][(Configured /\ ~TxFlag) =>
            (/\ Len(usart_fifo_tx') >= Len(usart_fifo_tx)
             /\ udr_written' = udr_written)]_vars
    /\ [][(Configured /\ ~RxFlag) =>
            (/\ Len(usart_fifo_rx') <= Len(usart_fifo_rx)
             /\ rx_read' = rx_read)]_vars

\* Configured for receiving only: a byte has arrived and is in the receive
\* queue, and a byte enqueued for transmission after the call stays in the
\* transmit queue, nothing having been stored to UDR1.
C14_Witness ==
    /\ Configured
    /\ RxFlag
    /\ ~TxFlag
    /\ usart_fifo_rx # <<>>
    /\ usart_fifo_tx # <<>>
    /\ usart_fifo_tx = tx_enqueued
    /\ udr_written = <<>>
    /\ tx_idle = FALSE

(***************************************************************************)
(* Properties of the handlers, checked under SpecEnable.                   *)
(***************************************************************************)
\* One invocation of a transmit handler: one fifo_read_one, at most one
\* store to UDR1 (of the byte taken), no other register written, and the
\* interrupted code goes on where it was.
TxHandlerBounded ==
    /\ Len(udr_written') <= Len(udr_written) + 1
    /\ Len(usart_fifo_tx) - Len(usart_fifo_tx')
         = Len(udr_written') - Len(udr_written)
    /\ UNCHANGED <<reg_vars, rx_vars, tx_enqueued, app_pc>>

\* One invocation of the receive handler: one read of UDR1, at most one
\* byte added to the receive queue, no register written.
RxHandlerBounded ==
    /\ Len(rx_read') = Len(rx_read) + 1
    /\ Len(usart_fifo_rx') - Len(usart_fifo_rx) \in {0, 1}
    /\ UNCHANGED <<reg_vars, tx_hw_vars, tx_q_vars, udr_written, app_pc>>

\* One invocation of the hook: one read-modify-write of UCSR1A or nothing,
\* no queue operation, no other register, and it returns to its caller.
HookBounded ==
    /\ UNCHANGED <<UCSR1B, UCSR1C, UBRR1, tx_udr, tx_shift, tx_q_vars,
                   udr_written, rx_vars>>
    /\ app_pc' = "idle"

\* C15: an invocation of an interrupt handler or of the hook is one step
\* that returns: it makes at most one queue operation and accesses at most
\* one register, and a transmit handler stores at most one byte to UDR1.
C15_BoundedHandlers ==
    [][/\ (USART1_TX_vect \/ USART1_UDRE_vect) => TxHandlerBounded
       /\ USART1_RX_vect => RxHandlerBounded
       /\ usart_txfifo_evth(Delivered) => HookBounded]_vars

\* Two bytes were enqueued: a transmit handler has stored one to UDR1 and
\* the other is queued; the receive handler has run once and queued the
\* byte it read.
C15_Witness ==
    /\ Len(udr_written) = 1
    /\ tx_udr # <<>>
    /\ Len(usart_fifo_tx) = 1
    /\ Len(tx_enqueued) = 2
    /\ Len(rx_read) = 1
    /\ Len(usart_fifo_rx) = 1

(***************************************************************************)
(* Properties of the event hook, checked under SpecHook.                   *)
(***************************************************************************)
\* The step is a hook invocation whose events lack the new-item event.
HookWithoutNew ==
    /\ app_pc = "evth"
    /\ app_pc' = "idle"
    /\ BitAnd(evth_events'[1], FIFO_EVT_NEW) = 0

\* C16: when usart_init has returned 0 the consumer handler of the
\* transmit queue is usart_txfifo_evth and the consumer event mask is
\* FIFO_EVT_NEW; a hook invocation whose events lack FIFO_EVT_NEW leaves
\* TXC1, the registers, the transmitter and the queues as they are.
C16_HookInstalledAndGuarded ==
    /\ [](init_ret = <<0>> =>
            (consumer_evth /\ consumer_evtm = FIFO_EVT_NEW))
    /\ [][HookWithoutNew =>
            UNCHANGED <<reg_vars, tx_hw_vars, tx_q_vars, tx_hist_vars,
                        rx_vars, consumer_evth, consumer_evtm>>]_vars

\* After a successful usart_init the hook was called with events that lack
\* the new-item event while TXC1 was set and a byte was queued: TXC1 is
\* still set.
C16_Witness ==
    /\ init_ret = <<0>>
    /\ consumer_evth
    /\ consumer_evtm = FIFO_EVT_NEW
    /\ evth_events = <<2 * FIFO_EVT_NEW>>
    /\ app_pc = "idle"
    /\ txc
    /\ usart_fifo_tx # <<>>

(***************************************************************************)
(* Properties of the stores to UDR1, checked under SpecTx.                 *)
(***************************************************************************)
\* C17: every store of usart_send_next to UDR1 is made while UDRE1 is set,
\* so the device takes every byte that was taken from the transmit queue.
C17_EveryStoreAccepted == udr_ignored = <<>>

(***************************************************************************)
(* Properties of the failing call, checked under SpecInit.                 *)
(***************************************************************************)
\* The step is a usart_init call that returns -1.
FailingCall == app_pc = "idle" /\ init_ret' = <<-1>>

\* C18: a usart_init call that returns -1 writes no register and does not
\* touch the consumer handler or mask of the transmit queue: registers,
\* hook, transmitter, receiver and queues are after the call what they
\* were before it.
C18_FailureChangesNothing ==
    [][FailingCall =>
         UNCHANGED <<reg_vars, consumer_evth, consumer_evtm, tx_hw_vars,
                     tx_q_vars, rx_vars>>]_vars

\* A call has returned -1 on a device that an earlier call left with
\* receiver and transmitter enabled and the hook installed; the enable
\* bits are still set, although the mode of the failed call asks for none.
C18_Witness ==
    /\ init_ret = <<-1>>
    /\ ~IsZero32(baud)
    /\ EnableWord(mode) % W8 = 0
    /\ BitsSet(UCSR1B) = EnableBits
    /\ consumer_evth
    /\ consumer_evtm = FIFO_EVT_NEW

(***************************************************************************)
(* Properties of the arithmetic of usart_init, checked under SpecInit.     *)
(***************************************************************************)
\* f * d is below 2^32: the uint32_t product is the product.
ProductFits(f, d) == IsZero32(d) \/ Div32(Mul32(f, d), d) = f

\* With f * d below 2^32: f * d - b lies in -(2^31 - 1) .. 2^31 - 1, so
\* that it is an int32_t and so is its negation.
DifferenceFits(f, d, b) ==
    LET p == Mul32(f, d)
    IN  IF Le32(b, p) THEN ~IsNeg32(Sub32(p, b))
        ELSE ~IsNeg32(Sub32(b, p))

\* Lines 52-58 for one factor compute f * d - b and its absolute value as
\* the integers they are.
ErrExact(f, d, b) == ProductFits(f, d) /\ DifferenceFits(f, d, b)

\* C19: when both divisors are non-zero, each error term of lines 52-54
\* and its absolute value (lines 56-58) is computed without wrap-around:
\* the product is below 2^32, the difference is an int32_t and its
\* negation does not overflow.
C19_ErrTermsExact ==
    (Called /\ BothFeasible(baud)) =>
        /\ ErrExact(F_CPU_DIV_16, Div16Of(baud), baud)
        /\ ErrExact(F_CPU_DIV_8, Div8Of(baud), baud)

\* C20: whenever usart_init succeeds for a baud > 0, the divisor it
\* selected is below 2^16 and UBRR1 holds it.
C20_DivisorFitsUBRR1 ==
    (init_ret = <<0>> /\ ~IsZero32(baud)) =>
        (ChosenDiv[1] = 0 /\ UBRR1 = ChosenDiv[2])

=============================================================================
